---- MODULE Spec2Model ----
(***************************************************************************)
(* A state-machine model of the UserAnalytics tracker (user-analytics      *)
(* script, "part_000") and of the values it exchanges with the browser     *)
(* and with Firestore.                                                     *)
(*                                                                         *)
(* Four specifications share the variables:                                *)
(*   SpecUA        the constructor's device / browser classification;      *)
(*   SpecPosts     createPost / loadPosts and the #postsContainer element; *)
(*   Spec          the two trackers built on page load: initialize(), the  *)
(*                 DOM and auth listeners, logEvent and the remote writes, *)
(*                 against a backend that may reject calls;                *)
(*   SpecReliable  the same trackers against a backend that rejects        *)
(*                 nothing, with getUserInsights() read at any moment.     *)
(***************************************************************************)
EXTENDS Integers, Sequences, FiniteSets, TLC

(***************************************************************************)
(* Bounds of the model.                                                    *)
(***************************************************************************)
\* longest sessionData.interactions list a tracker is driven to
MaxInteractions == 3
\* remote calls the backend is allowed to reject in one run
MaxRejections == 1
\* words in a user-agent string
MaxUALen == 2
\* posts stored in the posts collection before the page loads
MaxPosts == 12
\* createPost submissions in one run
MaxSubmits == 2
\* category clicks behind the viewed map getTopInterests is applied to
MaxViews == 5

(***************************************************************************)
(* Program constants.                                                      *)
(***************************************************************************)
\* window.userAnalytics (line 572) and analytics (line 589)
NumTrackers == 2
\* .slice(0, 3) in getTopInterests
TopN == 3
\* index % 5 in loadPosts
AdEvery == 5

Trackers == 1..NumTrackers
\* the tracker trackEvent() reaches: window.userAnalytics
GlobalTracker == 1
\* the tracker the post wiring uses: const analytics
PostTracker == 2

(***************************************************************************)
(* Values.                                                                 *)
(***************************************************************************)
Null == "null"
\* this.previousVisits before checkReturningUser assigns it
Undefined == -1
\* undefined + 1
NaN == -2

\* the address /get_user_ip reports for this browser
IP == "203.0.113.7"

\* data-category values of the .category-card elements; "7" is an
\* integer-like property name, which for-in enumerates before the others
Categories == {"slots", "poker", "7"}
IntegerLike == {"7"}
Amenities == {"pool"}
Ratings == {"low", "high"}
Distances == {"near", "far"}
\* values of the 'click' kind of logCasinoPreference
Clicked == {"7"}
Queries == {"vegas"}
EventNames == {"custom"}
Users == {"u1", "u2"}
Email(u) == IF u = Null THEN Null ELSE "mail-of-" \o u

(***************************************************************************)
(* State.                                                                  *)
(***************************************************************************)
VARIABLES
    firebase,        \* the global `firebase`: "ready", "undefined" (declared, no SDK) or "undeclared"
    pc,              \* [tracker -> where its initialize() stands]
    userProfile,     \* [tracker -> [ip, returning]]
    previousVisits,  \* [tracker -> Undefined or a count]
    sessionData,     \* [tracker -> [pageViews, searches, interactions, casinoPreferences]]
    isAuthenticated, \* [tracker -> BOOLEAN]
    userId,          \* [tracker -> uid or Null]
    userEmail,       \* [tracker -> email or Null]
    domListeners,    \* trackers whose click / submit listeners are registered, in registration order
    authListeners,   \* trackers subscribed to auth_state_changed, in registration order
    writes,          \* awaited Firestore writes not yet acknowledged, in issue order
    reads,           \* other awaited remote calls in flight (document reads), unordered
    issued,          \* every remote call made so far, as [tracker, kind]
    faults,          \* remote calls the backend may still reject
    users_by_ip,     \* the caller record users_by_ip/{IP}
    user_mappings,   \* [uid -> linkedIPs of user_mappings/{uid}]
    console,         \* what console.error / console.warn reported
    escaped,         \* exceptions and promise rejections no handler caught
    insights,        \* the value the last getUserInsights() call returned to its caller
    ua,              \* navigator.userAgent, as its words
    device,          \* userProfile.device
    browser,         \* userProfile.browser
    dom,             \* the elements of the page that exist
    posts,           \* the posts collection: the timestamps of its documents
    postsContainer,  \* the children of #postsContainer
    forEachIndex,    \* whether QuerySnapshot.forEach hands its callback an index
    submits,         \* clicks on #submitPostBtn so far
    loads,           \* loadPosts() invocations so far
    loading,         \* the loadPosts() invocations awaiting their query, by number
    otherSession,    \* checkReturningUser of a session in another browser on the same address
    attempts         \* [tracker -> the writes its latest logEvent call attempted]

vars == <<firebase, pc, userProfile, previousVisits, sessionData, isAuthenticated,
          userId, userEmail, domListeners, authListeners, writes, reads, issued, faults,
          users_by_ip, user_mappings, console, escaped, insights, ua, device, browser,
          dom, posts, postsContainer, forEachIndex, submits, loads, loading,
          otherSession, attempts>>

trackerVars == <<pc, userProfile, previousVisits, sessionData, isAuthenticated,
                 userId, userEmail, domListeners, authListeners>>
remoteVars == <<writes, reads, issued, faults, users_by_ip, user_mappings>>
uaVars == <<ua, device, browser>>
postVars == <<dom, posts, postsContainer, forEachIndex, submits, loads, loading>>

(***************************************************************************)
(* Sequence helpers.                                                       *)
(***************************************************************************)
RECURSIVE SeqsUpTo(_, _)
SeqsUpTo(S, n) ==
    IF n = 0 THEN {<<>>}
    ELSE LET shorter == SeqsUpTo(S, n - 1)
         IN  shorter \cup {Append(s, x) : s \in {q \in shorter : Len(q) = n - 1}, x \in S}

Range(s) == {s[i] : i \in 1..Len(s)}

RECURSIVE Concat(_)
Concat(ss) == IF ss = <<>> THEN <<>> ELSE Head(ss) \o Concat(Tail(ss))

(***************************************************************************)
(* Device and browser classification (constructor, getDeviceInfo,          *)
(* getBrowserInfo).  A user agent is a sequence of words; a word contains   *)
(* a token when it is that token, and contains it ignoring case when the   *)
(* two agree once lowered.                                                 *)
(***************************************************************************)
UAWords == {"iPhone", "Android", "iPad", "Tablet", "tablet", "PlayBook", "Mozilla",
            "Chrome", "chrome", "Safari", "Firefox", "Trident", "MSIE", "Edge"}

Lower(w) ==
    CASE w = "iPhone" -> "iphone"
      [] w = "Android" -> "android"
      [] w = "iPad" -> "ipad"
      [] w = "Tablet" -> "tablet"
      [] w = "PlayBook" -> "playbook"
      [] w = "Mozilla" -> "mozilla"
      [] w = "Chrome" -> "chrome"
      [] w = "Safari" -> "safari"
      [] w = "Firefox" -> "firefox"
      [] w = "Trident" -> "trident"
      [] w = "MSIE" -> "msie"
      [] w = "Edge" -> "edge"
      [] w = "webOS" -> "webos"
      [] w = "iPod" -> "ipod"
      [] w = "BlackBerry" -> "blackberry"
      [] w = "IEMobile" -> "iemobile"
      [] w = "Opera Mini" -> "opera mini"
      [] OTHER -> w

\* ua.indexOf(token) > -1
IndexOf(agent, token) == \E i \in 1..Len(agent) : agent[i] = token

\* /a|b|c/i.test(ua)
TestI(tokens, agent) ==
    \E i \in 1..Len(agent) : \E k \in tokens : Lower(agent[i]) = Lower(k)

MobilePattern == {"Android", "webOS", "iPhone", "iPad", "iPod", "BlackBerry",
                  "IEMobile", "Opera Mini"}
TabletPattern == {"iPad", "Tablet", "PlayBook"}

getDeviceInfo_tabletFirst(agent) ==
    IF TestI(TabletPattern, agent) THEN "tablet"
    ELSE IF TestI(MobilePattern, agent) THEN "mobile"
    ELSE "desktop"

getDeviceInfo(agent) ==
    IF TestI(MobilePattern, agent) THEN "mobile"
    ELSE IF TestI(TabletPattern, agent) THEN "tablet"
    ELSE "desktop"

getBrowserInfo_safariFirst(agent) ==
    IF IndexOf(agent, "Safari") THEN "Safari"
    ELSE IF IndexOf(agent, "Chrome") THEN "Chrome"
    ELSE IF IndexOf(agent, "Firefox") THEN "Firefox"
    ELSE IF IndexOf(agent, "MSIE") \/ IndexOf(agent, "Trident") THEN "IE"
    ELSE IF IndexOf(agent, "Edge") THEN "Edge"
    ELSE "Unknown"

getBrowserInfo(agent) ==
    IF IndexOf(agent, "Chrome") THEN "Chrome"
    ELSE IF IndexOf(agent, "Safari") THEN "Safari"
    ELSE IF IndexOf(agent, "Firefox") THEN "Firefox"
    ELSE IF IndexOf(agent, "MSIE") \/ IndexOf(agent, "Trident") THEN "IE"
    ELSE IF IndexOf(agent, "Edge") THEN "Edge"
    ELSE "Unknown"

(***************************************************************************)
(* Frequency maps (casinoPreferences.viewed, .clicked, .amenitiesSelected). *)
(* A JavaScript object is modelled by its own properties in for-in order:  *)
(* integer-like names first, the others in insertion order.                *)
(***************************************************************************)
Keys(obj) == {obj[i].key : i \in 1..Len(obj)}

\* obj[key], with 0 standing for a missing (undefined, falsy) entry
Get(obj, key) ==
    IF key \in Keys(obj)
    THEN (CHOOSE e \in Range(obj) : e.key = key).count
    ELSE 0

\* if (!obj[key]) obj[key] = 0;  obj[key]++
Increment(obj, key) ==
    IF key \in Keys(obj)
    THEN [i \in 1..Len(obj) |->
            IF obj[i].key = key THEN [key |-> key, count |-> obj[i].count + 1] ELSE obj[i]]
    ELSE IF key \in IntegerLike
         THEN <<[key |-> key, count |-> 1]>> \o obj
         ELSE Append(obj, [key |-> key, count |-> 1])

\* the for-in loop of getMostFrequent from position i on
RECURSIVE Scan(_, _, _, _)
Scan(obj, i, max, maxKey) ==
    IF i > Len(obj) THEN maxKey
    ELSE IF obj[i].count > max
         THEN Scan(obj, i + 1, obj[i].count, obj[i].key)
         ELSE Scan(obj, i + 1, max, maxKey)

RECURSIVE ScanGE(_, _, _, _)
ScanGE(obj, i, max, maxKey) ==
    IF i > Len(obj) THEN maxKey
    ELSE IF obj[i].count >= max
         THEN ScanGE(obj, i + 1, obj[i].count, obj[i].key)
         ELSE ScanGE(obj, i + 1, max, maxKey)

getMostFrequent_lastMax(obj) == ScanGE(obj, 1, 0, Null)

\* let maxKey = null; let max = 0; the scan; return maxKey
getMostFrequent(obj) == Scan(obj, 1, 0, Null)

RECURSIVE InsertDesc_beforeEqual(_, _)
InsertDesc_beforeEqual(sorted, e) ==
    IF sorted = <<>> THEN <<e>>
    ELSE IF Head(sorted).count > e.count
         THEN <<Head(sorted)>> \o InsertDesc_beforeEqual(Tail(sorted), e)
         ELSE <<e>> \o sorted

\* Array.prototype.sort((a, b) => b[1] - a[1]): stable, descending by count
RECURSIVE InsertDesc(_, _)
InsertDesc(sorted, e) ==
    IF sorted = <<>> THEN <<e>>
    ELSE IF Head(sorted).count >= e.count
         THEN <<Head(sorted)>> \o InsertDesc(Tail(sorted), e)
         ELSE <<e>> \o sorted

RECURSIVE SortDesc(_)
SortDesc(entries) ==
    IF entries = <<>> THEN <<>>
    ELSE InsertDesc(SortDesc(SubSeq(entries, 1, Len(entries) - 1)), entries[Len(entries)])

\* getTopInterests applied to the viewed map
getTopInterests(viewed) ==
    LET sorted == SortDesc(viewed)
        top == SubSeq(sorted, 1, IF Len(sorted) < TopN THEN Len(sorted) ELSE TopN)
    IN  [i \in 1..Len(top) |-> top[i].key]

(***************************************************************************)
(* Records.                                                                *)
(***************************************************************************)
NoDetails == [preferenceType |-> "-", value |-> "-", count |-> 0]

Interaction(type, details) == [type |-> type, details |-> details]

NewSessionData ==
    [pageViews |-> 0,
     searches |-> <<>>,
     interactions |-> <<>>,
     casinoPreferences |-> [viewed |-> <<>>, clicked |-> <<>>,
                            amenitiesSelected |-> <<>>, typePreference |-> Null]]

EmptyPreferences ==
    [categories |-> [c \in Categories |-> 0],
     amenities |-> [a \in Amenities |-> 0],
     mostViewedType |-> Null,
     ratingPreference |-> Null,
     distancePreference |-> Null]

\* users_by_ip/{IP} before any visit
NoDoc ==
    [exists |-> FALSE, visitCount |-> 0, linkedUsers |-> {}, lastUserId |-> Null,
     preferences |-> EmptyPreferences]

NewDoc_twoVisits ==
    [exists |-> TRUE, visitCount |-> 2, linkedUsers |-> {}, lastUserId |-> Null,
     preferences |-> EmptyPreferences]

\* what checkReturningUser's set() writes for a first-time visitor
NewDoc ==
    [exists |-> TRUE, visitCount |-> 1, linkedUsers |-> {}, lastUserId |-> Null,
     preferences |-> EmptyPreferences]

\* a record left by two earlier sessions
OldDoc ==
    [NewDoc EXCEPT !.visitCount = 2,
                   !.preferences.categories["poker"] = 2,
                   !.preferences.mostViewedType = "poker",
                   !.preferences.ratingPreference = "low"]

\* a remote call: who issued it, what it is, and its arguments
Call(t, kind, a, b, c) == [t |-> t, kind |-> kind, a |-> a, b |-> b, c |-> c]

Logged(t, op, cause) == [t |-> t, op |-> op, cause |-> cause]

NoInsights == <<>>

\* the outcomes the backend may give an awaited call
Outcomes == {TRUE} \cup (IF faults > 0 THEN {FALSE} ELSE {})

\* calls as they are recorded in `issued`
Sent(calls) == {[t |-> calls[i].t, kind |-> calls[i].kind] : i \in 1..Len(calls)}

\* the fire-and-forget calls among `calls` the backend may reject, `used`
\* rejections being spent in the same step already
Fates(calls, used) ==
    {bad \in SUBSET Range(calls) : used + Cardinality(bad) <= faults}

(***************************************************************************)
(* logEvent.                                                               *)
(***************************************************************************)
\* this.sessionData.interactions.push({type, details, timestamp})
PushInteraction(sd, type, details) ==
    [sd EXCEPT !.interactions = Append(@, Interaction(type, details))]

\* `firebase && ...` throws a ReferenceError when no script declared firebase
FirebaseThrows == firebase = "undeclared"

\* the two Firestore writes of logEvent: the event document and the session
\* summary (startTime, lastActivity, pageViews, duration, userAgent, device,
\* searches, interactions).  Nothing awaits their promises and nothing reads
\* what they write, so each is settled in the step that makes the call.
logEventWrites(t, ip, type) ==
    IF firebase = "ready" /\ ip # Null
    THEN <<Call(t, "event_add", type, ip, "-"), Call(t, "session_set", type, ip, "-")>>
    ELSE <<>>

\* the writes one logEvent call attempts: the events add(), the session
\* set() and firebase.analytics().logEvent().  add() and set() stand in one
\* try block, so an add() that throws when called (Firestore refuses a
\* details object holding an undefined field before it sends anything; valid
\* tells whether the details pass) leaves set() unattempted; the analytics
\* call has a try block of its own.
logEventAttempts(t, ip, valid) ==
    IF FirebaseThrows THEN {}
    ELSE (IF firebase = "ready" /\ ip # Null
          THEN (IF valid THEN {"event_add", "session_set"} ELSE {"event_add"})
          ELSE {})
         \cup (IF firebase = "ready" THEN {"analytics"} ELSE {})

\* what escapes logEvent to its caller
logEventThrown(t) ==
    IF FirebaseThrows THEN {Logged(t, "logEvent", "ReferenceError")} ELSE {}

\* the rejections of logEvent's writes: no handler is attached to either promise
Unhandled(bad) == {Logged(c.t, "logEvent", c.kind) : c \in bad}

(***************************************************************************)
(* logCasinoPreference and updatePreferencesInFirebase.                    *)
(***************************************************************************)
\* the switch of logCasinoPreference followed by its logEvent call, on one
\* tracker's sessionData
logCasinoPreference(sd, type, value) ==
    LET cp == sd.casinoPreferences
        cp1 == CASE type = "category" ->
                      [cp EXCEPT !.viewed = Increment(@, value),
                                 !.typePreference = getMostFrequent(Increment(cp.viewed, value))]
                 [] type = "click" -> [cp EXCEPT !.clicked = Increment(@, value)]
                 [] type = "amenity" -> [cp EXCEPT !.amenitiesSelected = Increment(@, value)]
                 [] OTHER -> cp
        count == IF Get(cp1.viewed, value) = 0 THEN 1 ELSE Get(cp1.viewed, value)
    IN  PushInteraction([sd EXCEPT !.casinoPreferences = cp1], "casino_preference",
                        [preferenceType |-> type, value |-> value, count |-> count])

updatePreferencesInFirebase_noIpGuard(t, ip, type, value, typePreference) ==
    IF firebase = "ready"
    THEN <<Call(t, "pref_update", type, value, typePreference)>>
    ELSE <<>>

\* the update() updatePreferencesInFirebase issues before its first await; the
\* call carries updateObj, built from type, value and the typePreference of
\* that moment
updatePreferencesInFirebase(t, ip, type, value, typePreference) ==
    IF firebase = "ready" /\ ip # Null
    THEN <<Call(t, "pref_update", type, value, typePreference)>>
    ELSE <<>>

updateObj_scalarKeepsFirst(doc, type, value, typePreference) ==
    LET p == doc.preferences
    IN  [doc EXCEPT !.preferences =
            CASE type = "category" ->
                   [p EXCEPT !.categories[value] = @ + 1, !.mostViewedType = typePreference]
              [] type = "amenity" -> [p EXCEPT !.amenities[value] = @ + 1]
              [] type = "rating" ->
                   [p EXCEPT !.ratingPreference = IF @ = Null THEN value ELSE @]
              [] type = "distance" ->
                   [p EXCEPT !.distancePreference = IF @ = Null THEN value ELSE @]
              [] OTHER -> p]

\* the caller record once userDocRef.update(updateObj) is applied
updateObj(doc, type, value, typePreference) ==
    LET p == doc.preferences
    IN  [doc EXCEPT !.preferences =
            CASE type = "category" ->
                   [p EXCEPT !.categories[value] = @ + 1, !.mostViewedType = typePreference]
              [] type = "amenity" -> [p EXCEPT !.amenities[value] = @ + 1]
              [] type = "rating" -> [p EXCEPT !.ratingPreference = value]
              [] type = "distance" -> [p EXCEPT !.distancePreference = value]
              [] OTHER -> p]

\* linkUserWithIP up to its first await
linkUserWithIP(t, ip, uid) ==
    IF firebase = "ready" /\ uid # Null /\ ip # Null
    THEN <<Call(t, "map_set", uid, ip, "-")>>
    ELSE <<>>

(***************************************************************************)
(* getUserInsights.                                                        *)
(***************************************************************************)
getUserInsights(t) ==
    [profile |-> [isNewUser |-> ~userProfile[t].returning,
                  visits |-> IF previousVisits[t] = Undefined THEN NaN
                             ELSE previousVisits[t] + 1],
     behavior |-> [pageViews |-> sessionData[t].pageViews,
                   searchCount |-> Len(sessionData[t].searches),
                   mainInterests |-> getTopInterests(sessionData[t].casinoPreferences.viewed),
                   primaryCasinoType |-> sessionData[t].casinoPreferences.typePreference],
     preferences |-> [casinoTypes |-> sessionData[t].casinoPreferences.viewed,
                      amenities |-> sessionData[t].casinoPreferences.amenitiesSelected]]

(***************************************************************************)
(* initialize() and checkReturningUser().                                  *)
(***************************************************************************)
\* the trackers as their constructors leave them, each suspended at
\* `await fetch('/get_user_ip')`, and nothing sent to the backend yet
Constructed ==
    /\ pc = [t \in Trackers |-> "fetch"]
    /\ userProfile = [t \in Trackers |-> [ip |-> Null, returning |-> FALSE]]
    /\ previousVisits = [t \in Trackers |-> Undefined]
    /\ sessionData = [t \in Trackers |-> NewSessionData]
    /\ isAuthenticated = [t \in Trackers |-> FALSE]
    /\ userId = [t \in Trackers |-> Null]
    /\ userEmail = [t \in Trackers |-> Null]
    /\ domListeners = <<>>
    /\ authListeners = <<>>
    /\ writes = <<>>
    /\ reads = {}
    /\ issued = {}
    /\ user_mappings = [u \in Users |-> {}]
    /\ console = {}
    /\ escaped = {}
    /\ insights = NoInsights
    /\ attempts = [t \in Trackers |-> {}]

\* a session of another browser: where its checkReturningUser stands and
\* what it has observed
Session(at, returning, visits) ==
    [pc |-> at, returning |-> returning, previousVisits |-> visits]

\* no session of another browser shares the address
NoOtherSession == otherSession = Session("none", FALSE, Undefined)

\* a browser whose user agent names no device and no browser
PlainAgent ==
    /\ ua = <<>>
    /\ device = "desktop"
    /\ browser = "Unknown"

\* a page without the post feature's elements
NoPostFeature ==
    /\ dom = {}
    /\ posts = {}
    /\ postsContainer = <<>>
    /\ forEachIndex = FALSE
    /\ submits = 0
    /\ loads = 0
    /\ loading = {}

\* the state both DOMContentLoaded handlers leave
Init ==
    /\ Constructed
    /\ faults = MaxRejections
    /\ firebase \in {"ready", "undefined", "undeclared"}
    /\ users_by_ip \in {NoDoc, OldDoc}
    /\ PlainAgent
    /\ NoPostFeature
    /\ NoOtherSession

FinishInit_noPageView(t, ip, sd, ws, cons, used) ==
    /\ sessionData' = [sessionData EXCEPT ![t] = sd]
    /\ domListeners' = Append(domListeners, t)
    /\ writes' = ws
    /\ pc' = [pc EXCEPT ![t] = "done"]
    /\ authListeners' = Append(authListeners, t)
    /\ console' = cons
    /\ attempts' = attempts
    /\ issued' = issued
    /\ escaped' = escaped
    /\ faults' = faults - used

\* initialize() from the return of checkReturningUser on: setupEventListeners,
\* logPageView, the auth_state_changed subscription.  sd is the tracker's
\* sessionData, ws the write queue and cons the console before these lines;
\* `used` counts the rejection that led here, if one did.  These lines run
\* only where `firebase` is declared: checkReturningUser's guard throws first
\* where it is not.
FinishInit(t, ip, sd, ws, cons, used) ==
    /\ sessionData' = [sessionData EXCEPT ![t] =
            PushInteraction([sd EXCEPT !.pageViews = @ + 1], "page_view", NoDetails)]
    /\ domListeners' = Append(domListeners, t)
    /\ writes' = ws
    /\ pc' = [pc EXCEPT ![t] = "done"]
    /\ authListeners' = Append(authListeners, t)
    /\ console' = cons
    /\ attempts' = [attempts EXCEPT ![t] = logEventAttempts(t, ip, TRUE)]
    /\ issued' = issued \cup Sent(logEventWrites(t, ip, "page_view"))
    /\ \E bad \in Fates(logEventWrites(t, ip, "page_view"), used) :
          /\ escaped' = escaped \cup Unhandled(bad)
          /\ faults' = faults - used - Cardinality(bad)

\* the fetch of /get_user_ip and response.json() settle; initialize() runs on
\* to its next await.  outcome: "ok" (an address), "noip" (a body without
\* one), "fail" (the fetch rejects or the body does not parse)
FetchSettle(t, outcome) ==
    /\ pc[t] = "fetch"
    /\ LET resolved == outcome \in {"ok", "noip"}
           ip == IF outcome = "ok" THEN IP ELSE Null
           thrown == IF ~resolved THEN "fetch"
                     ELSE IF FirebaseThrows THEN "ReferenceError" ELSE "none"
           cons == IF resolved /\ firebase = "undefined"
                   THEN console \cup {Logged(t, "checkReturningUser", "unavailable")}
                   ELSE console
       IN  /\ userProfile' = IF resolved THEN [userProfile EXCEPT ![t].ip = ip]
                             ELSE userProfile
           /\ IF thrown # "none"
              THEN /\ pc' = [pc EXCEPT ![t] = "failed"]
                   /\ console' = console \cup {Logged(t, "initialize", thrown)}
                   /\ UNCHANGED <<sessionData, domListeners, authListeners, writes, reads,
                                  issued, faults, escaped, attempts>>
              ELSE IF firebase = "ready" /\ ip # Null
              THEN /\ pc' = [pc EXCEPT ![t] = "check_get"]
                   /\ reads' = reads \cup {Call(t, "get", ip, "-", "-")}
                   /\ issued' = issued \cup Sent(<<Call(t, "get", ip, "-", "-")>>)
                   /\ UNCHANGED <<sessionData, domListeners, authListeners, writes, console,
                                  faults, escaped, attempts>>
              ELSE /\ FinishInit(t, ip, sessionData[t], writes, cons, 0)
                   /\ UNCHANGED reads
    /\ insights' = NoInsights
    /\ UNCHANGED <<firebase, previousVisits, isAuthenticated, userId, userEmail,
                   users_by_ip, user_mappings, uaVars, otherSession, postVars>>

\* users_by_ip/{ip}.get() settles; checkReturningUser runs on to its next await
GetSettle(t, ok) ==
    /\ pc[t] = "check_get"
    /\ Call(t, "get", userProfile[t].ip, "-", "-") \in reads
    /\ reads' = reads \ {Call(t, "get", userProfile[t].ip, "-", "-")}
    /\ IF ok
       THEN /\ pc' = [pc EXCEPT ![t] = "check_write"]
            /\ IF users_by_ip.exists
               THEN /\ userProfile' = [userProfile EXCEPT ![t].returning = TRUE]
                    /\ previousVisits' = [previousVisits EXCEPT ![t] = users_by_ip.visitCount]
                    /\ writes' = Append(writes, Call(t, "visit_update",
                                        users_by_ip.preferences.mostViewedType, "-", "-"))
                    /\ issued' = issued \cup {[t |-> t, kind |-> "visit_update"]}
               ELSE /\ writes' = Append(writes, Call(t, "create_set", "-", "-", "-"))
                    /\ issued' = issued \cup {[t |-> t, kind |-> "create_set"]}
                    /\ UNCHANGED <<userProfile, previousVisits>>
            /\ UNCHANGED <<sessionData, domListeners, authListeners, console, faults,
                           escaped, attempts>>
       ELSE /\ FinishInit(t, userProfile[t].ip, sessionData[t], writes,
                          console \cup {Logged(t, "checkReturningUser", "get")}, 1)
            /\ UNCHANGED <<userProfile, previousVisits>>
    /\ insights' = NoInsights
    /\ UNCHANGED <<firebase, isAuthenticated, userId, userEmail, users_by_ip,
                   user_mappings, uaVars, otherSession, postVars>>

\* the update of visitCount / lastVisit is acknowledged or rejected;
\* checkReturningUser loads the stored preference and returns
AckVisitUpdate(ok) ==
    /\ writes # <<>>
    /\ Head(writes).kind = "visit_update"
    /\ LET op == Head(writes)
           t == op.t
           applied == ok /\ users_by_ip.exists
       IN  /\ users_by_ip' = IF applied THEN [users_by_ip EXCEPT !.visitCount = @ + 1]
                             ELSE users_by_ip
           /\ FinishInit(t, userProfile[t].ip,
                  IF applied
                  THEN [sessionData[t] EXCEPT !.casinoPreferences.typePreference = op.a]
                  ELSE sessionData[t],
                  Tail(writes),
                  IF applied THEN console
                  ELSE console \cup {Logged(t, "checkReturningUser", "update")},
                  IF ok THEN 0 ELSE 1)
    /\ insights' = NoInsights
    /\ UNCHANGED <<firebase, userProfile, previousVisits, isAuthenticated, userId,
                   userEmail, reads, user_mappings, uaVars, otherSession, postVars>>

\* the set() creating the caller record is acknowledged or rejected
AckCreateSet(ok) ==
    /\ writes # <<>>
    /\ Head(writes).kind = "create_set"
    /\ LET t == Head(writes).t
       IN  /\ users_by_ip' = IF ok THEN NewDoc ELSE users_by_ip
           /\ FinishInit(t, userProfile[t].ip, sessionData[t], Tail(writes),
                  IF ok THEN console
                  ELSE console \cup {Logged(t, "checkReturningUser", "set")},
                  IF ok THEN 0 ELSE 1)
    /\ insights' = NoInsights
    /\ UNCHANGED <<firebase, userProfile, previousVisits, isAuthenticated, userId,
                   userEmail, reads, user_mappings, uaVars, otherSession, postVars>>

(***************************************************************************)
(* DOM and auth signals.  A signal runs the handler of every tracker that  *)
(* registered one, in registration order, each to completion.              *)
(***************************************************************************)
Room(ts) == \A t \in ts : Len(sessionData[t].interactions) < MaxInteractions

\* what one round of handlers leaves behind: `awaited` joins the write queue,
\* `forgotten` are logEvent's writes, `on` the trackers whose handler ran
Dispatch(on, awaited, forgotten) ==
    /\ writes' = writes \o awaited
    /\ issued' = issued \cup Sent(awaited) \cup Sent(forgotten)
    /\ \E bad \in Fates(forgotten, 0) :
          /\ escaped' = escaped \cup UNION {logEventThrown(t) : t \in on} \cup Unhandled(bad)
          /\ faults' = faults - Cardinality(bad)
    /\ attempts' = [t \in Trackers |->
            IF t \in on THEN logEventAttempts(t, userProfile[t].ip, TRUE) ELSE attempts[t]]
    /\ insights' = NoInsights
    /\ UNCHANGED <<firebase, pc, userProfile, previousVisits, domListeners, authListeners,
                   reads, users_by_ip, user_mappings, console, uaVars, otherSession, postVars>>

\* a click on a card or filter item carrying one data attribute: every
\* registered tracker runs logCasinoPreference(type, value)
Click(type, value) ==
    /\ domListeners # <<>>
    /\ Room(Range(domListeners))
    /\ sessionData' = [t \in Trackers |->
            IF t \in Range(domListeners)
            THEN logCasinoPreference(sessionData[t], type, value)
            ELSE sessionData[t]]
    /\ Dispatch(Range(domListeners),
            Concat([i \in 1..Len(domListeners) |->
                LET t == domListeners[i]
                IN  IF FirebaseThrows THEN <<>>
                    ELSE updatePreferencesInFirebase(t, userProfile[t].ip, type, value,
                            sessionData'[t].casinoPreferences.typePreference)]),
            Concat([i \in 1..Len(domListeners) |->
                logEventWrites(domListeners[i], userProfile[domListeners[i]].ip,
                               "casino_preference")]))
    /\ UNCHANGED <<isAuthenticated, userId, userEmail>>

\* .category-card click
ClickCategory(c) == Click("category", c)

\* .filter-item click, the item carrying data-amenity, data-rating or data-distance
ClickFilter(type, value) == Click(type, value)

\* #searchForm submit with a non-empty #searchInput: logSearch(query)
SubmitSearch(q) ==
    /\ domListeners # <<>>
    /\ Room(Range(domListeners))
    /\ sessionData' = [t \in Trackers |->
            IF t \in Range(domListeners)
            THEN PushInteraction([sessionData[t] EXCEPT !.searches = Append(@, q)],
                                 "search", [NoDetails EXCEPT !.value = q])
            ELSE sessionData[t]]
    /\ Dispatch(Range(domListeners), <<>>,
            Concat([i \in 1..Len(domListeners) |->
                logEventWrites(domListeners[i], userProfile[domListeners[i]].ip, "search")]))
    /\ UNCHANGED <<isAuthenticated, userId, userEmail>>

AuthStateChanged_keepsEmail(u) ==
    /\ authListeners # <<>>
    /\ Room(Range(authListeners))
    /\ LET on == Range(authListeners)
           type == IF u # Null THEN "user_login" ELSE "user_logout"
       IN  /\ isAuthenticated' = [t \in Trackers |->
                    IF t \in on THEN u # Null ELSE isAuthenticated[t]]
           /\ userId' = [t \in Trackers |-> IF t \in on THEN u ELSE userId[t]]
           /\ userEmail' = [t \in Trackers |->
                    IF t \in on /\ u # Null THEN Email(u) ELSE userEmail[t]]
           /\ sessionData' = [t \in Trackers |->
                    IF t \in on
                    THEN PushInteraction(sessionData[t], type, [NoDetails EXCEPT !.value = u])
                    ELSE sessionData[t]]
           /\ Dispatch(on,
                  Concat([i \in 1..Len(authListeners) |->
                      LET t == authListeners[i]
                      IN  IF FirebaseThrows THEN <<>>
                          ELSE linkUserWithIP(t, userProfile[t].ip, u)]),
                  Concat([i \in 1..Len(authListeners) |->
                      logEventWrites(authListeners[i], userProfile[authListeners[i]].ip, type)]))

\* auth_state_changed with detail.user = u (Null: signed out): handleAuthChange
AuthStateChanged(u) ==
    /\ authListeners # <<>>
    /\ Room(Range(authListeners))
    /\ LET on == Range(authListeners)
           type == IF u # Null THEN "user_login" ELSE "user_logout"
       IN  /\ isAuthenticated' = [t \in Trackers |->
                    IF t \in on THEN u # Null ELSE isAuthenticated[t]]
           /\ userId' = [t \in Trackers |-> IF t \in on THEN u ELSE userId[t]]
           /\ userEmail' = [t \in Trackers |-> IF t \in on THEN Email(u) ELSE userEmail[t]]
           /\ sessionData' = [t \in Trackers |->
                    IF t \in on
                    THEN PushInteraction(sessionData[t], type, [NoDetails EXCEPT !.value = u])
                    ELSE sessionData[t]]
           /\ Dispatch(on,
                  Concat([i \in 1..Len(authListeners) |->
                      LET t == authListeners[i]
                      IN  IF FirebaseThrows THEN <<>>
                          ELSE linkUserWithIP(t, userProfile[t].ip, u)]),
                  Concat([i \in 1..Len(authListeners) |->
                      logEventWrites(authListeners[i], userProfile[authListeners[i]].ip, type)]))

TrackEvent_sharedLog(name) ==
    /\ Room({GlobalTracker})
    /\ sessionData' = [t \in Trackers |-> PushInteraction(sessionData[t], name, NoDetails)]
    /\ Dispatch({GlobalTracker}, <<>>,
                logEventWrites(GlobalTracker, userProfile[GlobalTracker].ip, name))
    /\ UNCHANGED <<isAuthenticated, userId, userEmail>>

\* trackEvent(name): window.userAnalytics.logEvent(name)
TrackEvent(name) ==
    /\ Room({GlobalTracker})
    /\ sessionData' = [sessionData EXCEPT ![GlobalTracker] = PushInteraction(@, name, NoDetails)]
    /\ Dispatch({GlobalTracker}, <<>>,
                logEventWrites(GlobalTracker, userProfile[GlobalTracker].ip, name))
    /\ UNCHANGED <<isAuthenticated, userId, userEmail>>

\* trackEvent(name, details) with a details object one of whose fields is
\* undefined: the interaction is pushed, events.add() throws inside the try
\* block before anything is sent, the catch warns and the session set() of
\* the same block is not reached; the analytics call follows
TrackEventInvalid(name) ==
    /\ Room({GlobalTracker})
    /\ LET t == GlobalTracker
           ip == userProfile[t].ip
       IN  /\ sessionData' = [sessionData EXCEPT
                   ![t] = PushInteraction(@, name, [NoDetails EXCEPT !.value = "undefined"])]
           /\ attempts' = [attempts EXCEPT ![t] = logEventAttempts(t, ip, FALSE)]
           /\ console' = IF ~FirebaseThrows /\ firebase = "ready" /\ ip # Null
                         THEN console \cup {Logged(t, "logEvent", "add")}
                         ELSE console
           /\ escaped' = escaped \cup logEventThrown(t)
    /\ insights' = NoInsights
    /\ UNCHANGED <<firebase, pc, userProfile, previousVisits, isAuthenticated, userId,
                   userEmail, domListeners, authListeners, remoteVars, uaVars,
                   otherSession, postVars>>

\* window.userAnalytics.logCasinoPreference('click', v), called by page code
\* once the tracker has initialised
LogCasinoClick(v) ==
    /\ pc[GlobalTracker] = "done"
    /\ Room({GlobalTracker})
    /\ sessionData' = [sessionData EXCEPT
            ![GlobalTracker] = logCasinoPreference(@, "click", v)]
    /\ Dispatch({GlobalTracker},
            IF FirebaseThrows THEN <<>>
            ELSE updatePreferencesInFirebase(GlobalTracker, userProfile[GlobalTracker].ip,
                     "click", v, sessionData'[GlobalTracker].casinoPreferences.typePreference),
            logEventWrites(GlobalTracker, userProfile[GlobalTracker].ip, "casino_preference"))
    /\ UNCHANGED <<isAuthenticated, userId, userEmail>>

GetUserInsights_countsView(t) ==
    /\ insights' = <<getUserInsights(t)>>
    /\ sessionData' = [sessionData EXCEPT ![t].pageViews = @ + 1]
    /\ UNCHANGED <<firebase, pc, userProfile, previousVisits, isAuthenticated, userId,
                   userEmail, domListeners, authListeners, remoteVars, console, escaped,
                   uaVars, otherSession, attempts, postVars>>

\* a caller reads getUserInsights() of tracker t
GetUserInsights(t) ==
    /\ insights' = <<getUserInsights(t)>>
    /\ UNCHANGED <<trackerVars, remoteVars, firebase, console, escaped, uaVars, otherSession,
                   attempts, postVars>>

(***************************************************************************)
(* Acknowledgement of the remaining awaited writes, oldest first.          *)
(***************************************************************************)
AckPrefUpdate_retries(ok) ==
    /\ writes # <<>>
    /\ Head(writes).kind = "pref_update"
    /\ LET op == Head(writes)
           applied == ok /\ users_by_ip.exists
       IN  /\ users_by_ip' = IF applied THEN updateObj(users_by_ip, op.a, op.b, op.c)
                             ELSE users_by_ip
           /\ writes' = IF applied
                        THEN Append(Tail(writes), Call(op.t, "user_events_add", op.a, op.b, "-"))
                        ELSE Append(Tail(writes), op)
           /\ issued' = IF applied THEN issued \cup {[t |-> op.t, kind |-> "user_events_add"]}
                        ELSE issued
           /\ console' = IF applied THEN console
                         ELSE console \cup {Logged(op.t, "updatePreferencesInFirebase", "update")}
    /\ faults' = IF ok THEN faults ELSE faults - 1
    /\ insights' = NoInsights
    /\ UNCHANGED <<trackerVars, firebase, reads, user_mappings, escaped, uaVars,
                   otherSession, attempts, postVars>>

\* userDocRef.update(updateObj) settles; on success updatePreferencesInFirebase
\* goes on to add the user_events document
AckPrefUpdate(ok) ==
    /\ writes # <<>>
    /\ Head(writes).kind = "pref_update"
    /\ LET op == Head(writes)
           applied == ok /\ users_by_ip.exists
       IN  /\ users_by_ip' = IF applied THEN updateObj(users_by_ip, op.a, op.b, op.c)
                             ELSE users_by_ip
           /\ writes' = IF applied
                        THEN Append(Tail(writes), Call(op.t, "user_events_add", op.a, op.b, "-"))
                        ELSE Tail(writes)
           /\ issued' = IF applied THEN issued \cup {[t |-> op.t, kind |-> "user_events_add"]}
                        ELSE issued
           /\ console' = IF applied THEN console
                         ELSE console \cup {Logged(op.t, "updatePreferencesInFirebase", "update")}
    /\ faults' = IF ok THEN faults ELSE faults - 1
    /\ insights' = NoInsights
    /\ UNCHANGED <<trackerVars, firebase, reads, user_mappings, escaped, uaVars,
                   otherSession, attempts, postVars>>

\* the user_events add() settles
AckUserEventsAdd(ok) ==
    /\ writes # <<>>
    /\ Head(writes).kind = "user_events_add"
    /\ writes' = Tail(writes)
    /\ console' = IF ok THEN console
                  ELSE console \cup {Logged(Head(writes).t, "updatePreferencesInFirebase", "add")}
    /\ faults' = IF ok THEN faults ELSE faults - 1
    /\ insights' = NoInsights
    /\ UNCHANGED <<trackerVars, firebase, reads, issued, users_by_ip, user_mappings, escaped,
                   uaVars, otherSession, attempts, postVars>>

\* user_mappings/{uid}.set(..., {merge: true}) settles; on success
\* linkUserWithIP goes on to update the caller record with this.userId and
\* this.userEmail as they are by then
AckMapSet(ok) ==
    /\ writes # <<>>
    /\ Head(writes).kind = "map_set"
    /\ LET op == Head(writes)
       IN  /\ user_mappings' = IF ok THEN [user_mappings EXCEPT ![op.a] = @ \cup {op.b}]
                               ELSE user_mappings
           /\ writes' = IF ok
                        THEN Append(Tail(writes),
                                 Call(op.t, "link_update", userId[op.t], userEmail[op.t], "-"))
                        ELSE Tail(writes)
           /\ issued' = IF ok THEN issued \cup {[t |-> op.t, kind |-> "link_update"]}
                        ELSE issued
           /\ console' = IF ok THEN console
                         ELSE console \cup {Logged(op.t, "linkUserWithIP", "set")}
    /\ faults' = IF ok THEN faults ELSE faults - 1
    /\ insights' = NoInsights
    /\ UNCHANGED <<trackerVars, firebase, reads, users_by_ip, escaped, uaVars, otherSession,
                   attempts, postVars>>

\* the update of linkedUsers / lastUserId / lastUserEmail settles
AckLinkUpdate(ok) ==
    /\ writes # <<>>
    /\ Head(writes).kind = "link_update"
    /\ LET op == Head(writes)
           applied == ok /\ users_by_ip.exists
       IN  /\ users_by_ip' = IF applied
                             THEN [users_by_ip EXCEPT !.linkedUsers = @ \cup {op.a},
                                                      !.lastUserId = op.a]
                             ELSE users_by_ip
           /\ console' = IF applied THEN console
                         ELSE console \cup {Logged(op.t, "linkUserWithIP", "update")}
    /\ writes' = Tail(writes)
    /\ faults' = IF ok THEN faults ELSE faults - 1
    /\ insights' = NoInsights
    /\ UNCHANGED <<trackerVars, firebase, reads, issued, user_mappings, escaped, uaVars,
                   otherSession, attempts,
                   postVars>>

Next ==
    \/ \E t \in Trackers, o \in {"ok", "noip", "fail"} : FetchSettle(t, o)
    \/ \E t \in Trackers, ok \in Outcomes : GetSettle(t, ok)
    \/ \E ok \in Outcomes : AckVisitUpdate(ok)
    \/ \E ok \in Outcomes : AckCreateSet(ok)
    \/ \E c \in Categories : ClickCategory(c)
    \/ \E v \in Amenities : ClickFilter("amenity", v)
    \/ \E v \in Ratings : ClickFilter("rating", v)
    \/ \E v \in Distances : ClickFilter("distance", v)
    \/ \E q \in Queries : SubmitSearch(q)
    \/ \E u \in Users \cup {Null} : AuthStateChanged(u)
    \/ \E n \in EventNames : TrackEvent(n)
    \/ \E ok \in Outcomes : AckPrefUpdate(ok)
    \/ \E ok \in Outcomes : AckUserEventsAdd(ok)
    \/ \E ok \in Outcomes : AckMapSet(ok)
    \/ \E ok \in Outcomes : AckLinkUpdate(ok)

Spec == Init /\ [][Next]_vars

(***************************************************************************)
(* The same page against a backend that rejects no Firestore call, with a  *)
(* caller that reads getUserInsights() at any moment.                      *)
(***************************************************************************)
InitReliable ==
    /\ Constructed
    /\ faults = 0
    /\ firebase \in {"ready", "undefined", "undeclared"}
    /\ users_by_ip \in {NoDoc, OldDoc}
    /\ PlainAgent
    /\ NoPostFeature
    /\ NoOtherSession

NextReliable ==
    \/ Next
    \/ \E t \in Trackers : GetUserInsights(t)

SpecReliable == InitReliable /\ [][NextReliable]_vars

(***************************************************************************)
(* The page with every kind of logCasinoPreference call and the writes     *)
(* those calls start, the backend rejecting up to MaxRejections of them.   *)
(***************************************************************************)
NextPreferences ==
    \/ \E t \in Trackers, o \in {"ok", "noip", "fail"} : FetchSettle(t, o)
    \/ \E t \in Trackers, ok \in Outcomes : GetSettle(t, ok)
    \/ \E ok \in Outcomes : AckVisitUpdate(ok)
    \/ \E ok \in Outcomes : AckCreateSet(ok)
    \/ \E c \in Categories : ClickCategory(c)
    \/ \E v \in Amenities : ClickFilter("amenity", v)
    \/ \E v \in Ratings : ClickFilter("rating", v)
    \/ \E v \in Distances : ClickFilter("distance", v)
    \/ \E v \in Clicked : LogCasinoClick(v)
    \/ \E ok \in Outcomes : AckPrefUpdate(ok)
    \/ \E ok \in Outcomes : AckUserEventsAdd(ok)

SpecPreferences == Init /\ [][NextPreferences]_vars

(***************************************************************************)
(* The page with trackEvent calls whose details Firestore accepts or       *)
(* refuses.                                                                *)
(***************************************************************************)
NextLogEvent ==
    \/ \E t \in Trackers, o \in {"ok", "noip", "fail"} : FetchSettle(t, o)
    \/ \E t \in Trackers, ok \in Outcomes : GetSettle(t, ok)
    \/ \E ok \in Outcomes : AckVisitUpdate(ok)
    \/ \E ok \in Outcomes : AckCreateSet(ok)
    \/ \E n \in EventNames : TrackEvent(n)
    \/ \E n \in EventNames : TrackEventInvalid(n)

SpecLogEvent == Init /\ [][NextLogEvent]_vars

(***************************************************************************)
(* The constructor's classification of navigator.userAgent.                *)
(***************************************************************************)
InitUA ==
    /\ Constructed
    /\ faults = 0
    /\ firebase = "ready"
    /\ users_by_ip = NoDoc
    /\ NoPostFeature
    /\ NoOtherSession
    /\ ua \in SeqsUpTo(UAWords, MaxUALen)
    /\ device = "unset"
    /\ browser = "unset"

\* device: this.getDeviceInfo(), browser: this.getBrowserInfo()
Classify ==
    /\ device = "unset"
    /\ device' = getDeviceInfo(ua)
    /\ browser' = getBrowserInfo(ua)
    /\ UNCHANGED <<trackerVars, remoteVars, firebase, console, escaped, insights, ua,
                   postVars, otherSession, attempts>>

NextUA == Classify

SpecUA == InitUA /\ [][NextUA]_vars

(***************************************************************************)
(* createPost and loadPosts.  A post is known by its timestamp; the        *)
(* children of #postsContainer are posts, promotional blocks and whatever  *)
(* the page held before the first load.                                    *)
(***************************************************************************)
\* the element createAdElement builds
AdElement == 0
\* content of #postsContainer that no loadPosts() call rendered
StaleElement == -1

PostElements == {"postsContainer", "submitPostBtn", "postText", "postVideo"}

Max(S) == CHOOSE x \in S : \A y \in S : y <= x

\* orderBy("timestamp", "desc")
RECURSIVE OrderByDesc(_)
OrderByDesc(S) ==
    IF S = {} THEN <<>> ELSE <<Max(S)>> \o OrderByDesc(S \ {Max(S)})

\* the forEach callback of loadPosts from the i-th document on.  The
\* callback names a second parameter, index; QuerySnapshot.forEach is
\* documented as forEach(callback: (result) => void, thisArg?) and the
\* namespaced SDK calls callback.call(thisArg, doc), which leaves index
\* undefined and `index > 0` false.  forEachIndex tells which forEach the
\* page runs against: one that passes the index as Array.forEach does, or
\* the documented one.
RECURSIVE RenderFrom(_, _)
RenderFrom(snapshot, i) ==
    IF i > Len(snapshot) THEN <<>>
    ELSE (IF forEachIndex /\ i - 1 > 0 /\ (i - 1) % AdEvery = 0 THEN <<AdElement>> ELSE <<>>)
         \o <<snapshot[i]>> \o RenderFrom(snapshot, i + 1)

InitPosts ==
    /\ Constructed
    /\ faults = MaxRejections
    /\ firebase \in {"ready", "undefined", "undeclared"}
    /\ users_by_ip = NoDoc
    /\ PlainAgent
    /\ NoOtherSession
    /\ dom \in {PostElements, PostElements \ {"postsContainer"}, PostElements \ {"postText"}}
    /\ \E n \in 0..MaxPosts : posts = 1..n
    /\ postsContainer = IF "postsContainer" \in dom THEN <<StaleElement>> ELSE <<>>
    /\ forEachIndex \in BOOLEAN
    /\ submits = 0
    /\ loads = 0
    /\ loading = {}

\* loadPosts() up to its await.  Neither caller awaits the promise or
\* attaches a handler to it, so what it throws before the try is an
\* unhandled rejection.  cons and esc are the console and the escaped
\* errors before the call.
loadPosts(cons, esc) ==
    /\ loads' = loads + 1
    /\ IF FirebaseThrows
       THEN /\ escaped' = esc \cup {Logged(PostTracker, "loadPosts", "ReferenceError")}
            /\ console' = cons
            /\ UNCHANGED <<postsContainer, loading, issued>>
       ELSE IF firebase = "undefined"
       THEN /\ console' = cons \cup {Logged(PostTracker, "loadPosts", "unavailable")}
            /\ escaped' = esc
            /\ UNCHANGED <<postsContainer, loading, issued>>
       ELSE IF "postsContainer" \notin dom
       THEN \* postsContainer.innerHTML on null, inside the try
            /\ console' = cons \cup {Logged(PostTracker, "loadPosts", "TypeError")}
            /\ escaped' = esc
            /\ UNCHANGED <<postsContainer, loading, issued>>
       ELSE /\ postsContainer' = <<>>
            /\ loading' = loading \cup {loads + 1}
            /\ issued' = issued \cup {[t |-> PostTracker, kind |-> "posts_get"]}
            /\ console' = cons
            /\ escaped' = esc

\* analytics.loadPosts() at the end of the DOMContentLoaded handler
PageLoad ==
    /\ loads = 0
    /\ loadPosts(console, escaped)
    /\ UNCHANGED <<trackerVars, firebase, writes, reads, faults, users_by_ip, user_mappings,
                   insights, uaVars, otherSession, attempts, dom, posts, forEachIndex, submits>>

\* the posts query settles; its forEach appends what it renders
PostsGetSettle(n, ok) ==
    /\ n \in loading
    /\ loading' = loading \ {n}
    /\ postsContainer' = IF ok THEN postsContainer \o RenderFrom(OrderByDesc(posts), 1)
                         ELSE postsContainer
    /\ console' = IF ok THEN console
                  ELSE console \cup {Logged(PostTracker, "loadPosts", "get")}
    /\ faults' = IF ok THEN faults ELSE faults - 1
    /\ UNCHANGED <<trackerVars, firebase, writes, reads, issued, users_by_ip, user_mappings,
                   escaped, insights, uaVars, otherSession, attempts, dom, posts,
                   forEachIndex, submits, loads>>

\* a click on #submitPostBtn: the handler reads #postText and #postVideo and
\* awaits createPost, which runs to its first await
SubmitPost(video) ==
    /\ loads > 0
    /\ submits < MaxSubmits
    /\ "submitPostBtn" \in dom
    /\ submits' = submits + 1
    /\ LET thrown == IF ~({"postText", "postVideo"} \subseteq dom) THEN "TypeError"
                     ELSE IF FirebaseThrows THEN "ReferenceError" ELSE "none"
           sends == thrown = "none" /\ firebase = "ready"
           call == Call(PostTracker, IF video THEN "storage_put" ELSE "posts_add",
                        ToString(submits + 1), "-", "-")
       IN  /\ escaped' = IF thrown # "none"
                         THEN escaped \cup {Logged(PostTracker, "submitPost", thrown)}
                         ELSE escaped
           /\ console' = IF thrown = "none" /\ firebase = "undefined"
                         THEN console \cup {Logged(PostTracker, "createPost", "unavailable")}
                         ELSE console
           /\ reads' = IF sends /\ video THEN reads \cup {call} ELSE reads
           /\ writes' = IF sends /\ ~video THEN Append(writes, call) ELSE writes
           /\ issued' = IF sends THEN issued \cup Sent(<<call>>) ELSE issued
    /\ UNCHANGED <<trackerVars, firebase, faults, users_by_ip, user_mappings, insights,
                   uaVars, otherSession, attempts, dom, posts, postsContainer, forEachIndex,
                   loads, loading>>

\* videoRef.put(videoFile) settles; on success createPost asks for the URL
StoragePutSettle(c, ok) ==
    /\ c \in reads
    /\ c.kind = "storage_put"
    /\ reads' = IF ok THEN (reads \ {c}) \cup {[c EXCEPT !.kind = "storage_url"]}
                ELSE reads \ {c}
    /\ issued' = IF ok THEN issued \cup {[t |-> c.t, kind |-> "storage_url"]} ELSE issued
    /\ console' = IF ok THEN console
                  ELSE console \cup {Logged(c.t, "createPost", "put")}
    /\ faults' = IF ok THEN faults ELSE faults - 1
    /\ UNCHANGED <<trackerVars, firebase, writes, users_by_ip, user_mappings, escaped,
                   insights, uaVars, otherSession, attempts, postVars>>

\* snapshot.ref.getDownloadURL() settles; on success createPost adds the post
StorageUrlSettle(c, ok) ==
    /\ c \in reads
    /\ c.kind = "storage_url"
    /\ reads' = reads \ {c}
    /\ writes' = IF ok THEN Append(writes, [c EXCEPT !.kind = "posts_add"]) ELSE writes
    /\ issued' = IF ok THEN issued \cup {[t |-> c.t, kind |-> "posts_add"]} ELSE issued
    /\ console' = IF ok THEN console
                  ELSE console \cup {Logged(c.t, "createPost", "url")}
    /\ faults' = IF ok THEN faults ELSE faults - 1
    /\ UNCHANGED <<trackerVars, firebase, users_by_ip, user_mappings, escaped, insights,
                   uaVars, otherSession, attempts, postVars>>

\* db.collection("posts").add(post) settles; on success createPost reloads
AckPostsAdd(ok) ==
    /\ writes # <<>>
    /\ Head(writes).kind = "posts_add"
    /\ writes' = Tail(writes)
    /\ faults' = IF ok THEN faults ELSE faults - 1
    /\ IF ok
       THEN /\ posts' = posts \cup {IF posts = {} THEN 1 ELSE Max(posts) + 1}
            /\ loadPosts(console, escaped)
       ELSE /\ console' = console \cup {Logged(PostTracker, "createPost", "add")}
            /\ UNCHANGED <<posts, postsContainer, loads, loading, issued, escaped>>
    /\ UNCHANGED <<trackerVars, firebase, reads, users_by_ip, user_mappings, insights,
                   uaVars, otherSession, attempts, dom, forEachIndex, submits>>

NextPosts ==
    \/ PageLoad
    \/ \E n \in loading, ok \in Outcomes : PostsGetSettle(n, ok)
    \/ \E video \in BOOLEAN : SubmitPost(video)
    \/ \E c \in reads, ok \in Outcomes : StoragePutSettle(c, ok)
    \/ \E c \in reads, ok \in Outcomes : StorageUrlSettle(c, ok)
    \/ \E ok \in Outcomes : AckPostsAdd(ok)

SpecPosts == InitPosts /\ [][NextPosts]_vars

(***************************************************************************)
(* The whole page: both trackers with their listeners, trackEvent on the   *)
(* global tracker and the post feature on the other, no call rejected.     *)
(***************************************************************************)
InitPage ==
    /\ Constructed
    /\ faults = 0
    /\ firebase = "ready"
    /\ users_by_ip = NoDoc
    /\ PlainAgent
    /\ NoOtherSession
    /\ dom = PostElements
    /\ posts = {}
    /\ postsContainer = <<StaleElement>>
    /\ forEachIndex = FALSE
    /\ submits = 0
    /\ loads = 0
    /\ loading = {}

NextPage ==
    \/ \E t \in Trackers, o \in {"ok", "noip", "fail"} : FetchSettle(t, o)
    \/ \E t \in Trackers, ok \in Outcomes : GetSettle(t, ok)
    \/ \E ok \in Outcomes : AckVisitUpdate(ok)
    \/ \E ok \in Outcomes : AckCreateSet(ok)
    \/ \E c \in Categories : ClickCategory(c)
    \/ \E v \in Amenities : ClickFilter("amenity", v)
    \/ \E n \in EventNames : TrackEvent(n)
    \/ \E ok \in Outcomes : AckPrefUpdate(ok)
    \/ \E ok \in Outcomes : AckUserEventsAdd(ok)
    \/ PageLoad
    \/ \E n \in loading, ok \in Outcomes : PostsGetSettle(n, ok)
    \/ SubmitPost(FALSE)
    \/ \E ok \in Outcomes : AckPostsAdd(ok)

SpecPage == InitPage /\ [][NextPage]_vars

(***************************************************************************)
(* The page together with a session of another browser behind the same     *)
(* address.  That session runs the same checkReturningUser through a       *)
(* Firestore client of its own, so its calls are not ordered with the      *)
(* page's.  No call is rejected.                                           *)
(***************************************************************************)
otherVars == <<firebase, trackerVars, writes, reads, issued, faults, user_mappings, console,
               escaped, attempts, uaVars, postVars>>

\* the other session resolves its address and issues users_by_ip/{ip}.get()
OtherCheck ==
    /\ otherSession.pc = "start"
    /\ otherSession' = [otherSession EXCEPT !.pc = "get"]
    /\ insights' = NoInsights
    /\ UNCHANGED <<otherVars, users_by_ip>>

\* its get() settles: update() for a record found, set() otherwise
OtherGetSettle ==
    /\ otherSession.pc = "get"
    /\ otherSession' = IF users_by_ip.exists
                       THEN Session("update", TRUE, users_by_ip.visitCount)
                       ELSE Session("set", FALSE, Undefined)
    /\ insights' = NoInsights
    /\ UNCHANGED <<otherVars, users_by_ip>>

\* its update() or set() is applied
OtherWriteSettle ==
    /\ otherSession.pc \in {"update", "set"}
    /\ users_by_ip' = IF otherSession.pc = "set" THEN NewDoc
                      ELSE [users_by_ip EXCEPT !.visitCount = @ + 1]
    /\ otherSession' = [otherSession EXCEPT !.pc = "done"]
    /\ insights' = NoInsights
    /\ UNCHANGED otherVars

InitSessions ==
    /\ Constructed
    /\ faults = 0
    /\ firebase = "ready"
    /\ users_by_ip \in {NoDoc, OldDoc}
    /\ PlainAgent
    /\ NoPostFeature
    /\ otherSession = Session("start", FALSE, Undefined)

NextSessions ==
    \/ \E t \in Trackers : FetchSettle(t, "ok")
    \/ \E t \in Trackers, ok \in Outcomes : GetSettle(t, ok)
    \/ \E ok \in Outcomes : AckVisitUpdate(ok)
    \/ \E ok \in Outcomes : AckCreateSet(ok)
    \/ \E c \in Categories : ClickCategory(c)
    \/ \E u \in Users : AuthStateChanged(u)
    \/ \E ok \in Outcomes : AckPrefUpdate(ok)
    \/ \E ok \in Outcomes : AckUserEventsAdd(ok)
    \/ \E ok \in Outcomes : AckMapSet(ok)
    \/ \E ok \in Outcomes : AckLinkUpdate(ok)
    \/ OtherCheck
    \/ OtherGetSettle
    \/ OtherWriteSettle

SpecSessions == InitSessions /\ [][NextSessions]_vars

(***************************************************************************)
(* The same three sessions running their returning-user checks one after   *)
(* another: a session begins its check only while no other is inside one.  *)
(***************************************************************************)
\* no session is between its get() and the settlement of its update() / set()
NoneChecking ==
    /\ \A t \in Trackers : pc[t] \notin {"check_get", "check_write"}
    /\ otherSession.pc \notin {"get", "update", "set"}

NextSequential ==
    \/ \E t \in Trackers : NoneChecking /\ FetchSettle(t, "ok")
    \/ \E t \in Trackers, ok \in Outcomes : GetSettle(t, ok)
    \/ \E ok \in Outcomes : AckVisitUpdate(ok)
    \/ \E ok \in Outcomes : AckCreateSet(ok)
    \/ \E c \in Categories : ClickCategory(c)
    \/ \E ok \in Outcomes : AckPrefUpdate(ok)
    \/ \E ok \in Outcomes : AckUserEventsAdd(ok)
    \/ NoneChecking /\ OtherCheck
    \/ OtherGetSettle
    \/ OtherWriteSettle

SpecSequential == InitSessions /\ [][NextSequential]_vars

(***************************************************************************)
(* getUserInsights() read from a session that viewed categories.  The      *)
(* session is the global tracker's on a page without the Firebase SDK and  *)
(* without an address: initialize() has finished, nothing is sent, and the *)
(* .category-card clicks of `views` have been handled.                     *)
(***************************************************************************)
\* data-category values of a page with one more card
Labels == Categories \cup {"bingo"}

\* sessionData after initialize(): logPageView has run
ViewedPage ==
    PushInteraction([NewSessionData EXCEPT !.pageViews = 1], "page_view", NoDetails)

\* sessionData after the clicks on the cards `views`, oldest first
RECURSIVE AfterViews(_)
AfterViews(views) ==
    IF views = <<>> THEN ViewedPage
    ELSE logCasinoPreference(AfterViews(SubSeq(views, 1, Len(views) - 1)),
                             "category", views[Len(views)])

InitInterests ==
    /\ firebase = "undefined"
    /\ pc = [t \in Trackers |-> IF t = GlobalTracker THEN "done" ELSE "fetch"]
    /\ userProfile = [t \in Trackers |-> [ip |-> Null, returning |-> FALSE]]
    /\ previousVisits = [t \in Trackers |-> Undefined]
    /\ \E views \in SeqsUpTo(Labels, MaxViews) :
          sessionData = [t \in Trackers |->
                            IF t = GlobalTracker THEN AfterViews(views) ELSE NewSessionData]
    /\ isAuthenticated = [t \in Trackers |-> FALSE]
    /\ userId = [t \in Trackers |-> Null]
    /\ userEmail = [t \in Trackers |-> Null]
    /\ domListeners = <<GlobalTracker>>
    /\ authListeners = <<GlobalTracker>>
    /\ writes = <<>>
    /\ reads = {}
    /\ issued = {}
    /\ faults = 0
    /\ users_by_ip = NoDoc
    /\ user_mappings = [u \in Users |-> {}]
    /\ console = {Logged(GlobalTracker, "checkReturningUser", "unavailable")}
    /\ escaped = {}
    /\ insights = NoInsights
    /\ attempts = [t \in Trackers |-> {}]
    /\ PlainAgent
    /\ NoPostFeature
    /\ NoOtherSession

NextInterests == \E t \in Trackers : GetUserInsights(t)

SpecInterests == InitInterests /\ [][NextInterests]_vars

(***************************************************************************)
(* Properties.                                                             *)
(***************************************************************************)
\* the largest count in a frequency map
MaxCount(obj) == CHOOSE m \in {obj[i].count : i \in 1..Len(obj)} :
                    \A i \in 1..Len(obj) : obj[i].count <= m

\* the key a left-to-right scan of obj meets first among those holding the
\* largest count
FirstAtMax(obj) ==
    obj[CHOOSE i \in 1..Len(obj) :
            /\ obj[i].count = MaxCount(obj)
            /\ \A j \in 1..(i - 1) : obj[j].count < MaxCount(obj)].key

C2_FailedResolutionStillWires ==
    \A t \in Trackers :
        Logged(t, "initialize", "fetch") \in console
        => /\ pc[t] \in {"done", "failed"}
           /\ t \in Range(domListeners)
           /\ sessionData[t].pageViews = 1

\* the number of page_view events in an interactions list
PageViewEvents(interactions) ==
    Cardinality({i \in 1..Len(interactions) : interactions[i].type = "page_view"})

\* C3: once initialize() has finished, well or not, getUserInsights()
\* reports as pageViews the number of page_view events logged in the
\* session, and that number is at least 1.
C3_PageViewsCountEvents ==
    \A t \in Trackers :
        pc[t] \in {"done", "failed"}
        => /\ getUserInsights(t).behavior.pageViews
                = PageViewEvents(sessionData[t].interactions)
           /\ getUserInsights(t).behavior.pageViews >= 1

\* the value of the last logCasinoPreference(type, v) call tracker t logged,
\* Null when it logged none
LastValue(t, type) ==
    LET log == sessionData[t].interactions
        calls == {i \in 1..Len(log) : /\ log[i].type = "casino_preference"
                                     /\ log[i].details.preferenceType = type}
    IN  IF calls = {} THEN Null
        ELSE log[CHOOSE i \in calls : \A j \in calls : j <= i].details.value

\* the scalar preference the caller record stores for rating or distance
Stored(type) ==
    IF type = "rating" THEN users_by_ip.preferences.ratingPreference
    ELSE users_by_ip.preferences.distancePreference

\* every update() a preference call of this type triggered has been applied
AllApplied(type) ==
    /\ \A i \in 1..Len(writes) : ~(writes[i].kind = "pref_update" /\ writes[i].a = type)
    /\ \A t \in Trackers : Logged(t, "updatePreferencesInFirebase", "update") \notin console

\* C4: for rating and for distance, with the identity resolved and every
\* update the preference calls triggered applied, the one scalar the caller
\* record stores is the value of the last call.
C4_ScalarLastWriteWins ==
    \A t \in Trackers, type \in {"rating", "distance"} :
        /\ firebase = "ready"
        /\ userProfile[t].ip # Null
        /\ LastValue(t, type) # Null
        /\ AllApplied(type)
        => Stored(type) = LastValue(t, type)

\* 'low' then 'high' were recorded and applied: the record stores 'high'
C4_Witness ==
    \E t \in Trackers :
        LET log == sessionData[t].interactions
        IN  /\ Len(log) = 3
            /\ log[2].details = [preferenceType |-> "rating", value |-> "low", count |-> 1]
            /\ log[3].details = [preferenceType |-> "rating", value |-> "high", count |-> 1]
            /\ userProfile[t].ip # Null
            /\ AllApplied("rating")
            /\ users_by_ip.exists
            /\ Stored("rating") = "high"

IdentityKeyedOps == {"checkReturningUser", "linkUserWithIP", "updatePreferencesInFirebase",
                     "logEvent"}

\* C5: a tracker whose userProfile.ip is null has issued no call on
\* users_by_ip or user_mappings, and where the backend client is present none
\* of checkReturningUser, linkUserWithIP, updatePreferencesInFirebase and
\* logEvent has reported or thrown an error for it.
C5_NullIdentityNoRemote ==
    \A t \in Trackers :
        userProfile[t].ip = Null
        => /\ \A c \in issued : c.t # t
           /\ \A i \in 1..Len(writes) : writes[i].t # t
           /\ \A c \in reads : c.t # t
           /\ firebase = "ready"
              => \A e \in console \cup escaped : ~(e.t = t /\ e.op \in IdentityKeyedOps)

\* a tracker without an address that ran a preference call and a sign-in
C5_Witness ==
    \E t \in Trackers :
        LET log == sessionData[t].interactions
        IN  /\ pc[t] = "done"
            /\ userProfile[t].ip = Null
            /\ firebase = "ready"
            /\ Len(log) = 3
            /\ \E i \in 1..3 : /\ log[i].type = "casino_preference"
                               /\ log[i].details.preferenceType = "rating"
            /\ \E i \in 1..3 : log[i].type = "user_login"

\* C6: no exception and no promise rejection leaves the handler or the
\* operation it arose in.
C6_NothingEscapes == escaped = {}

\* C10: a getUserInsights() call leaves the profile, the session data, the
\* auth fields and the remote store as they were and issues no remote call.
C10_InsightsReadOnly ==
    [][insights' # NoInsights
       => UNCHANGED <<userProfile, previousVisits, sessionData, isAuthenticated, userId,
                      userEmail, users_by_ip, user_mappings, writes, reads, issued>>]_vars

\* a call answered from a session that viewed two categories
C10_Witness ==
    \E t \in Trackers :
        /\ insights = <<getUserInsights(t)>>
        /\ Len(insights[1].behavior.mainInterests) = 2
        /\ insights[1].behavior.pageViews = 1

\* C7: a loadPosts() over n stored posts leaves #postsContainer holding
\* nothing it held before, the n posts in descending timestamp order, and one
\* promotional block immediately before each post whose 0-based index i has
\* i > 0 and i % 5 = 0, and nothing else.
C7_LoadPostsInterleavesAds ==
    /\ loads = 1
    /\ submits = 0
    /\ loading = {}
    /\ firebase = "ready"
    /\ "postsContainer" \in dom
    /\ Logged(PostTracker, "loadPosts", "get") \notin console
    => LET n == Cardinality(posts)
           snapshot == OrderByDesc(posts)
           blocks == IF n = 0 THEN 0 ELSE (n - 1) \div AdEvery
       IN  /\ Len(postsContainer) = n + blocks
           /\ \A i \in 0..(n - 1) : postsContainer[i + 1 + (i \div AdEvery)] = snapshot[i + 1]
           /\ \A i \in 1..(n - 1) :
                 i % AdEvery = 0 => postsContainer[i + (i \div AdEvery)] = AdElement

\* the user agent contains, ignoring case, one of the mobile tokens
HasMobileToken ==
    \E i \in 1..Len(ua) :
        Lower(ua[i]) \in {"android", "webos", "iphone", "ipad", "ipod", "blackberry",
                          "iemobile", "opera mini"}

\* the user agent contains, ignoring case, one of the tablet tokens
HasTabletToken ==
    \E i \in 1..Len(ua) : Lower(ua[i]) \in {"ipad", "tablet", "playbook"}

\* C8: the device is 'mobile' for a user agent with a mobile token, 'tablet'
\* for one with a tablet token and no mobile token, 'desktop' for one with
\* neither; tokens are matched ignoring case.
C8_DeviceClasses ==
    device # "unset"
    => /\ HasMobileToken => device = "mobile"
       /\ HasTabletToken /\ ~HasMobileToken => device = "tablet"
       /\ ~HasTabletToken /\ ~HasMobileToken => device = "desktop"

\* a user agent naming a tablet token before a mobile one is 'mobile'
C8_Witness ==
    /\ ua = <<"Tablet", "iPhone">>
    /\ device = "mobile"

BrowserOrder == <<"Chrome", "Safari", "Firefox", "IE", "Edge">>

\* the user agent contains the token(s) of browser b, case respected
Names(b) ==
    IF b = "IE" THEN {"MSIE", "Trident"} \cap Range(ua) # {}
    ELSE b \in Range(ua)

\* C9: the browser is the first of Chrome, Safari, Firefox, IE (MSIE or
\* Trident), Edge whose token the user agent contains, and 'Unknown' when it
\* contains none.
C9_BrowserPriority ==
    browser # "unset"
    => IF \E k \in 1..Len(BrowserOrder) : Names(BrowserOrder[k])
       THEN \E k \in 1..Len(BrowserOrder) :
               /\ Names(BrowserOrder[k])
               /\ \A j \in 1..(k - 1) : ~Names(BrowserOrder[j])
               /\ browser = BrowserOrder[k]
       ELSE browser = "Unknown"

\* a user agent naming Safari before Chrome is 'Chrome'
C9_Witness ==
    /\ ua = <<"Safari", "Chrome">>
    /\ browser = "Chrome"

\* the visit count recorded for the identity before this session
PriorVisits(t) == IF userProfile[t].returning THEN previousVisits[t] ELSE 0

\* C11: the visits a getUserInsights() call reports once initialize() is done
\* are the visits recorded before this session plus 1, which is 1 for a
\* visitor without a record.
C11_VisitsIsPriorPlusOne ==
    \A t \in Trackers :
        pc[t] = "done" /\ insights = <<getUserInsights(t)>>
        => insights[1].profile.visits = PriorVisits(t) + 1

\* the place of a key in a frequency map's iteration order
Place(obj, key) == CHOOSE i \in 1..Len(obj) : obj[i].key = key

\* top is a choice of the min(3, number of keys) most frequent keys of obj,
\* most frequent first, equally frequent ones in obj's iteration order
IsTopThree(obj, top) ==
    /\ Len(top) = IF Len(obj) < 3 THEN Len(obj) ELSE 3
    /\ \A i \in 1..Len(top) : top[i] \in Keys(obj)
    /\ \A i, j \in 1..Len(top) : i # j => top[i] # top[j]
    /\ \A i, j \in 1..Len(top) : i < j => Get(obj, top[i]) >= Get(obj, top[j])
    /\ \A k \in Keys(obj) \ Range(top) : \A i \in 1..Len(top) : Get(obj, k) <= Get(obj, top[i])
    /\ \A i, j \in 1..Len(top) :
          i < j /\ Get(obj, top[i]) = Get(obj, top[j]) => Place(obj, top[i]) < Place(obj, top[j])

\* C12: mainInterests holds min(3, number of viewed labels) distinct labels
\* of the viewed map in non-increasing order of count, no omitted label
\* counting more than an included one, equal counts in the map's iteration
\* order.
C12_MainInterestsTopThree ==
    \A t \in Trackers :
        insights = <<getUserInsights(t)>>
        => IsTopThree(sessionData[t].casinoPreferences.viewed,
                      insights[1].behavior.mainInterests)

\* four labels viewed, the most viewed one clicked last, two of the others
\* tied, the integer-like label enumerated first: three are reported
C12_Witness ==
    /\ insights = <<getUserInsights(GlobalTracker)>>
    /\ sessionData[GlobalTracker].casinoPreferences.viewed
          = << [key |-> "7", count |-> 1], [key |-> "slots", count |-> 1],
               [key |-> "poker", count |-> 1], [key |-> "bingo", count |-> 2] >>
    /\ insights[1].behavior.mainInterests = <<"bingo", "7", "slots">>

C14_VisitCountMonotone ==
    [][users_by_ip'.visitCount >= users_by_ip.visitCount]_vars

\* C15: an existing caller record is never replaced: it stays, and its
\* linkedUsers and stored preference counts lose nothing.
C15_RecordNeverReplaced ==
    [][users_by_ip.exists
       => /\ users_by_ip'.exists
          /\ users_by_ip.linkedUsers \subseteq users_by_ip'.linkedUsers
          /\ \A c \in Categories :
                users_by_ip'.preferences.categories[c] >= users_by_ip.preferences.categories[c]
          /\ \A a \in Amenities :
                users_by_ip'.preferences.amenities[a] >= users_by_ip.preferences.amenities[a]
      ]_vars

\* C16: a linking begun for user U ends with both directions stored for U:
\* the caller-record update it issues once the user_mappings set() has
\* succeeded names U, and when that update is applied to the record, the
\* address is among U's linkedIPs, U among the record's linkedUsers and
\* lastUserId is U, whatever signals arrived in between.
C16_LinkedBothWays ==
    [][writes # <<>>
       => LET op == Head(writes)
          IN  /\ op.kind = "map_set" /\ writes' # writes /\ Len(writes') = Len(writes)
                 => writes'[Len(writes')].a = op.a
              /\ op.kind = "link_update" /\ writes' = Tail(writes) /\ users_by_ip.exists
                 => /\ op.a \in Users
                    /\ IP \in user_mappings'[op.a]
                    /\ op.a \in users_by_ip'.linkedUsers
                    /\ users_by_ip'.lastUserId = op.a
      ]_vars

\* the preference updates of tracker t waiting in the queue w
PrefUpdates(w, t) ==
    Cardinality({i \in 1..Len(w) : w[i].kind = "pref_update" /\ w[i].t = t})

\* tracker t has handled one logCasinoPreference call in this step
LoggedPreference(t) ==
    LET old == sessionData[t].interactions
        new == sessionData'[t].interactions
    IN  /\ Len(new) > Len(old)
        /\ new[Len(new)].type = "casino_preference"

\* a preference update or its user_events add() settles in this step
PreferenceWriteSettles ==
    /\ writes # <<>>
    /\ Head(writes).kind \in {"pref_update", "user_events_add"}
    /\ \A i \in 1..Len(writes) : i > Len(writes') \/ writes'[i] # writes[i]

\* C17 as stated: every logCasinoPreference call appends one interaction and
\* starts one remote preference update.
C17_OneUpdatePerCall ==
    [][\A t \in Trackers :
          LoggedPreference(t)
          => /\ Len(sessionData'[t].interactions) = Len(sessionData[t].interactions) + 1
             /\ PrefUpdates(writes', t) = PrefUpdates(writes, t) + 1
      ]_vars

\* C17: every logCasinoPreference call appends exactly one interaction and,
\* with the SDK loaded and the address resolved, starts exactly one remote
\* preference update (none otherwise); the settling of that update or of its
\* user_events add(), with either outcome, leaves every tracker's in-memory
\* session data as the call left it and puts no further update in the queue.
C17_OneUpdatePerCallWhenResolved ==
    [][/\ \A t \in Trackers :
            /\ LoggedPreference(t)
               => /\ Len(sessionData'[t].interactions) = Len(sessionData[t].interactions) + 1
                  /\ PrefUpdates(writes', t) - PrefUpdates(writes, t)
                        = (IF firebase = "ready" /\ userProfile[t].ip # Null THEN 1 ELSE 0)
            /\ PrefUpdates(writes', t) > PrefUpdates(writes, t) => LoggedPreference(t)
       /\ PreferenceWriteSettles
          => /\ sessionData' = sessionData
             /\ \A t \in Trackers : PrefUpdates(writes', t) = PrefUpdates(Tail(writes), t)
      ]_vars

\* a rejected preference update has been reported and nothing is queued, while
\* the tracker that made the call holds its interaction and typePreference
C17_Witness ==
    \E t \in Trackers :
        /\ Logged(t, "updatePreferencesInFirebase", "update") \in console
        /\ users_by_ip.exists
        /\ writes = <<>>
        /\ sessionData[t].casinoPreferences.typePreference # Null
        /\ \E i \in 1..Len(sessionData[t].interactions) :
              sessionData[t].interactions[i].type = "casino_preference"

\* C18: whenever a tracker with the SDK ready and the address resolved
\* handles a logEvent call (its interaction list grows), that call attempts
\* all three writes: the events add(), the session set() and the analytics
\* sink.
C18_AllThreeAttempted ==
    [][\A t \in Trackers :
          /\ Len(sessionData'[t].interactions) > Len(sessionData[t].interactions)
          /\ firebase = "ready"
          /\ userProfile'[t].ip # Null
          => attempts'[t] = {"event_add", "session_set", "analytics"}
      ]_vars

\* the positions of the auth interactions in a tracker's log
AuthSignals(log) == {i \in 1..Len(log) : log[i].type \in {"user_login", "user_logout"}}

\* the positions of the interactions of one type
OfType(log, type) == {i \in 1..Len(log) : log[i].type = type}

\* the auth fields of tracker t are those the last signal it handled gives
AuthFollowsLastSignal(t) ==
    LET log == sessionData[t].interactions
    IN  IF AuthSignals(log) = {} \/ log[Max(AuthSignals(log))].type = "user_logout"
        THEN /\ ~isAuthenticated[t]
             /\ userId[t] = Null
             /\ userEmail[t] = Null
        ELSE LET u == log[Max(AuthSignals(log))].details.value
             IN  /\ isAuthenticated[t]
                 /\ u \in Users
                 /\ userId[t] = u
                 /\ userEmail[t] = "mail-of-" \o u

\* C19: after every step each tracker is signed in as the user of the last
\* signed-in signal it handled, or signed out (no user, no email) if the last
\* signal was a sign-out or none was handled; a step appends at most one
\* auth interaction to a tracker's log, as the only interaction of the step,
\* and the auth fields change only in such a step.
C19_AuthFollowsLastSignal ==
    [][\A t \in Trackers :
          LET old == sessionData[t].interactions
              new == sessionData'[t].interactions
              logins == Cardinality(OfType(new, "user_login"))
                           - Cardinality(OfType(old, "user_login"))
              logouts == Cardinality(OfType(new, "user_logout"))
                            - Cardinality(OfType(old, "user_logout"))
          IN  /\ AuthFollowsLastSignal(t)'
              /\ logins + logouts \in {0, 1}
              /\ logins + logouts = 1 => Len(new) = Len(old) + 1
              /\ <<isAuthenticated[t], userId[t], userEmail[t]>>
                    # <<isAuthenticated'[t], userId'[t], userEmail'[t]>>
                 => logins + logouts = 1
      ]_vars

\* a tracker handled a sign-in and then a sign-out and is signed out, while
\* another sequence left a tracker signed in as the second of two users
C19_Witness ==
    \E t \in Trackers :
        LET log == sessionData[t].interactions
        IN  /\ Len(log) = 3
            /\ log[2].type = "user_login"
            /\ log[3].type = "user_logout"
            /\ ~isAuthenticated[t]
            /\ userId[t] = Null

\* C20: whenever an applied category update changes the caller record's
\* preferences.categories, the mostViewedType it leaves is a label holding
\* the largest count of that map.
C20_MostViewedTypeIsRemoteMax ==
    [][users_by_ip'.preferences.categories # users_by_ip.preferences.categories
       /\ users_by_ip'.exists
       /\ users_by_ip.exists
       => LET categories == users_by_ip'.preferences.categories
              mostViewedType == users_by_ip'.preferences.mostViewedType
          IN  /\ mostViewedType \in Categories
              /\ \A c \in Categories : categories[c] <= categories[mostViewedType]
      ]_vars

\* the interaction tracker t appended last in this step
Appended(t) == sessionData'[t].interactions[Len(sessionData'[t].interactions)]

\* tracker t's interaction list grew in this step
Grew(t) == Len(sessionData'[t].interactions) > Len(sessionData[t].interactions)

\* C21: a category or filter click is recorded once by every tracker that
\* has registered its listeners, in that tracker's own maps, and starts one
\* remote update per such tracker with a resolved address, each of which,
\* applied, increments the shared record by one; a tracker without listeners
\* records nothing of it; a trackEvent call changes the global tracker's
\* session data only, and the post feature no session data of the global
\* tracker.
C21_TrackersShareNothing ==
    [][/\ (\E o \in Trackers : LoggedPreference(o))
          => \A t \in Trackers :
                IF t \in Range(domListeners)
                THEN LET d == Appended(t).details
                         old == sessionData[t].casinoPreferences
                         new == sessionData'[t].casinoPreferences
                     IN  /\ LoggedPreference(t)
                         /\ Len(sessionData'[t].interactions)
                               = Len(sessionData[t].interactions) + 1
                         /\ d.preferenceType = "category"
                            => Get(new.viewed, d.value) = Get(old.viewed, d.value) + 1
                         /\ d.preferenceType = "amenity"
                            => Get(new.amenitiesSelected, d.value)
                                  = Get(old.amenitiesSelected, d.value) + 1
                         /\ userProfile[t].ip # Null
                            => PrefUpdates(writes', t) = PrefUpdates(writes, t) + 1
                ELSE sessionData'[t] = sessionData[t]
       /\ PreferenceWriteSettles /\ users_by_ip.exists /\ Head(writes).kind = "pref_update"
          => LET op == Head(writes)
             IN  /\ op.a = "category"
                    => users_by_ip'.preferences.categories[op.b]
                          = users_by_ip.preferences.categories[op.b] + 1
                 /\ op.a = "amenity"
                    => users_by_ip'.preferences.amenities[op.b]
                          = users_by_ip.preferences.amenities[op.b] + 1
       /\ Grew(GlobalTracker) /\ Appended(GlobalTracker).type \in EventNames
          => sessionData'[PostTracker] = sessionData[PostTracker]
       /\ loads' # loads \/ submits' # submits \/ postsContainer' # postsContainer
          => sessionData'[GlobalTracker] = sessionData[GlobalTracker]
      ]_vars

\* one click on the slots card, recorded once by each tracker and twice in
\* the record of a first-time visitor; a trackEvent call since, in the global
\* tracker's log only
C21_Witness ==
    /\ \A t \in Trackers : Get(sessionData[t].casinoPreferences.viewed, "slots") = 1
    /\ users_by_ip.preferences.categories["slots"] = 2
    /\ \E i \in 1..Len(sessionData[GlobalTracker].interactions) :
          sessionData[GlobalTracker].interactions[i].type \in EventNames
    /\ \A i \in 1..Len(sessionData[PostTracker].interactions) :
          sessionData[PostTracker].interactions[i].type \notin EventNames
    /\ loads > 0

\* C22: the count detail of the casino_preference interaction a tracker
\* appends is the count its frequency map of that kind holds for the value
\* after the call: viewed for category, amenitiesSelected for amenity,
\* clicked for click.
C22_CountIsPostIncrement ==
    [][\A t \in Trackers :
          LoggedPreference(t)
          => LET d == Appended(t).details
                 cp == sessionData'[t].casinoPreferences
             IN  /\ d.preferenceType = "category" => d.count = Get(cp.viewed, d.value)
                 /\ d.preferenceType = "amenity"
                    => d.count = Get(cp.amenitiesSelected, d.value)
                 /\ d.preferenceType = "click" => d.count = Get(cp.clicked, d.value)
      ]_vars

\* the interactions handlers of DOM and auth signals append
SignalTypes == {"casino_preference", "search", "user_login", "user_logout"}

\* C23: a tracker appends an interaction of a DOM or auth signal only once
\* its initialize() has finished and its listeners are registered, and every
\* such interaction stands after the tracker's page_view in its log.
C23_NoSignalBeforePageView ==
    [][\A t \in Trackers :
          LET log == sessionData'[t].interactions
          IN  /\ Grew(t) /\ Appended(t).type \in SignalTypes
                 => /\ pc[t] = "done"
                    /\ t \in Range(domListeners) \cap Range(authListeners)
              /\ \A i \in 1..Len(log) :
                    log[i].type \in SignalTypes
                    => \E j \in 1..(i - 1) : log[j].type = "page_view"
      ]_vars

\* a click handled by one tracker after its page view while the other, still
\* initialising, has recorded nothing
C23_Witness ==
    \E t, o \in Trackers :
        /\ pc[o] \in {"fetch", "check_get", "check_write"}
        /\ sessionData[o].interactions = <<>>
        /\ Len(sessionData[t].interactions) >= 2
        /\ sessionData[t].interactions[1].type = "page_view"
        /\ sessionData[t].interactions[2].type \in SignalTypes

\* how often element e stands in #postsContainer
Shown(e) == Cardinality({i \in 1..Len(postsContainer) : postsContainer[i] = e})

\* C24: once every loadPosts() call has finished, none of them rejected,
\* #postsContainer shows each stored post exactly once and nothing from
\* before the first load.
C24_EachPostShownOnce ==
    /\ firebase = "ready"
    /\ "postsContainer" \in dom
    /\ loads > 0
    /\ loading = {}
    /\ Logged(PostTracker, "loadPosts", "get") \notin console
    => /\ \A p \in posts : Shown(p) = 1
       /\ Shown(StaleElement) = 0

====
